---- MODULE Spec2Model ----
(***************************************************************************)
(* A model of cp2077solver/solver.py: the depth-first search of            *)
(* _solve_internal over SearchStackItem values and the priority relaxation *)
(* of solve.  Indices of the code matrix are 0-based as in the source;     *)
(* Python lists are TLA+ sequences, so list index i is sequence index i+1. *)
(***************************************************************************)
EXTENDS Integers, Sequences, FiniteSets, TLC

VARIABLES
    code_matrix,        \* spec.code_matrix.cells, the list of rows
    caller_sequences,   \* upload_sequences of the Specification the caller passed
    upload_sequences,   \* upload_sequences of the spec of the current attempt
    buffer_size,        \* spec.buffer_size
    strategy,           \* the strategy argument
    search_stack,       \* the deque of SearchStackItem, top at the end
    solutions,          \* _solve_internal's list, in discovery order
    stopped,            \* TRUE once the while loop was left with break
    result,             \* solve's local `solutions`
    printed,            \* the priorities named by the printed warnings, in order
    attempts,           \* number of calls of _solve_internal so far
    pc                  \* "solve" | "loop" | "check" | "done" | "raised"

vars == <<code_matrix, caller_sequences, upload_sequences, buffer_size, strategy,
          search_stack, solutions, stopped, result, printed, attempts, pc>>

(***************************************************************************)
(* Bounds of the model.                                                    *)
(***************************************************************************)
MaxMatrixSize == 2      \* the code matrices are 1x1 .. MaxMatrixSize x MaxMatrixSize
NumValues == 2          \* distinct cell values
MaxSeqLen == 2          \* cells of one upload sequence
MaxSeqs == 2            \* upload sequences of a Specification
MaxPriority == 2        \* priorities are 1..MaxPriority
MaxBuffer == 5          \* buffer_size is 0..MaxBuffer
TierSeqs == 3           \* upload sequences of a Specification of TierInit
TierPriorities == 3     \* priorities of TierInit are 1..TierPriorities
TierCells == 4          \* cells of all upload sequences of TierInit together
TierBuffer == 2         \* buffer_size of TierInit is 1..TierBuffer
RawSize == 2            \* RawInit: at most RawSize rows of at most RawSize cells each
RawBuffer == 2          \* buffer_size of RawInit is -1..RawBuffer
WideSize == 3           \* WideInit: the matrix is WideSize x WideSize
WideValues == 1         \* WideInit: the matrix cells are 1..WideValues
WideSeqLen == 3         \* WideInit: cells of one upload sequence
WideBuffer == 4         \* buffer_size of WideInit is 0..WideBuffer

(***************************************************************************)
(* Constants of the program.                                               *)
(***************************************************************************)
FIND_FIRST_SOLUTION == 0
FIND_ALL_SOLUTIONS == 1
ROW == 0
COLUMN == 1
initial_row_idx == 0

CellValues == 1..NumValues

(***************************************************************************)
(* Generic helpers standing for Python built-ins.                          *)
(***************************************************************************)
RECURSIVE SumSeq(_)
SumSeq(s) == IF s = <<>> THEN 0 ELSE Head(s) + SumSeq(Tail(s))

RECURSIVE MaxSeq(_)
MaxSeq(s) ==
    IF Len(s) = 1 THEN s[1]
    ELSE LET m == MaxSeq(Tail(s)) IN IF Head(s) >= m THEN Head(s) ELSE m

RECURSIVE SortedList(_)
SortedList(S) ==
    IF S = {} THEN <<>>
    ELSE LET lo == CHOOSE x \in S : \A y \in S : x <= y
         IN  <<lo>> \o SortedList(S \ {lo})

(***************************************************************************)
(* CodeMatrix                                                              *)
(***************************************************************************)
CodeMatrix(n) == [1..n -> [1..n -> CellValues]]

\* CodeMatrix.__getitem__
CellAt(m, row_idx, col_idx) == m[row_idx + 1][col_idx + 1]

size(m) == Len(m)

iterate_row(m, row_idx) == [i \in 1..Len(m[row_idx + 1]) |-> <<i - 1, m[row_idx + 1][i]>>]

iterate_col(m, col_idx) == [i \in 1..Len(m) |-> <<i - 1, m[i][col_idx + 1]>>]

(***************************************************************************)
(* UploadSequence, SolutionStep, SearchStackItem                           *)
(***************************************************************************)
UploadSequence(max_len, max_priority) ==
    [cells : UNION {[1..n -> CellValues] : n \in 1..max_len}, priority : 1..max_priority]

UploadSequenceLists(max_seqs, max_len, max_priority) ==
    UNION {[1..n -> UploadSequence(max_len, max_priority)] : n \in 1..max_seqs}

SolutionStep(value, row_idx, col_idx) ==
    [value |-> value, row_idx |-> row_idx, col_idx |-> col_idx]

SearchStackItem(steps, current_step, incomplete_sequence_length, next_pick_direction) ==
    [steps |-> steps, current_step |-> current_step,
     incomplete_sequence_length |-> incomplete_sequence_length,
     next_pick_direction |-> next_pick_direction]

(***************************************************************************)
(* _solve_internal: the seeds of the search stack.                         *)
(***************************************************************************)
InitialIncompleteLengthLastCell(upload_sequence, cell_value) ==
    Len(upload_sequence.cells)
        - (IF upload_sequence.cells[Len(upload_sequence.cells)] = cell_value THEN 1 ELSE 0)

InitialIncompleteLength(upload_sequence, cell_value) ==
    Len(upload_sequence.cells) - (IF upload_sequence.cells[1] = cell_value THEN 1 ELSE 0)

SeedItem(seqs, col_idx, cell_value) ==
    LET current_step == SolutionStep(cell_value, initial_row_idx, col_idx)
    IN  SearchStackItem(
            <<current_step>>,
            current_step,
            [i \in 1..Len(seqs) |-> InitialIncompleteLength(seqs[i], cell_value)],
            COLUMN)

\* IndexError: cells[0] of a matrix without rows, or upload_sequence[0] of an
\* upload sequence without cells once row 0 yields a cell.
RaisesAtSeed(m, seqs) ==
    \/ Len(m) = 0
    \/ Len(m[1]) > 0 /\ \E i \in 1..Len(seqs) : seqs[i].cells = <<>>

SeedStack(m, seqs) ==
    LET row == iterate_row(m, initial_row_idx)
    IN  [i \in 1..Len(row) |-> SeedItem(seqs, row[i][1], row[i][2])]

(***************************************************************************)
(* _solve_internal: one iteration of the while loop.                       *)
(***************************************************************************)
IsSolution(item) == SumSeq(item.incomplete_sequence_length) = 0

IsHopelessNever(item, bsize) == FALSE

IsHopelessOffByOne(item, bsize) ==
    bsize - Len(item.steps) + 1 < MaxSeq(item.incomplete_sequence_length)

IsHopelessEager(item, bsize) ==
    bsize - Len(item.steps) <= MaxSeq(item.incomplete_sequence_length)

IsHopeless(item, bsize) ==
    bsize - Len(item.steps) < MaxSeq(item.incomplete_sequence_length)

StopsSearchNever(strat) == FALSE

StopsSearch(strat) == strat = FIND_FIRST_SOLUTION

RowCandidatesBefore(m, item) ==
    LET row == iterate_row(m, item.current_step.row_idx)
        keep(p) == p[1] < item.current_step.col_idx
    IN  [i \in 1..Len(SelectSeq(row, keep)) |->
            SolutionStep(SelectSeq(row, keep)[i][2], item.current_step.row_idx,
                         SelectSeq(row, keep)[i][1])]

RowCandidates(m, item) ==
    LET row == iterate_row(m, item.current_step.row_idx)
        keep(p) == p[1] # item.current_step.col_idx
    IN  [i \in 1..Len(SelectSeq(row, keep)) |->
            SolutionStep(SelectSeq(row, keep)[i][2], item.current_step.row_idx,
                         SelectSeq(row, keep)[i][1])]

ColumnCandidatesTransposed(m, item) ==
    LET col == iterate_col(m, item.current_step.col_idx)
        keep(p) == p[1] # item.current_step.row_idx
    IN  [i \in 1..Len(SelectSeq(col, keep)) |->
            SolutionStep(SelectSeq(col, keep)[i][2], item.current_step.col_idx,
                         SelectSeq(col, keep)[i][1])]

ColumnCandidates(m, item) ==
    LET col == iterate_col(m, item.current_step.col_idx)
        keep(p) == p[1] # item.current_step.row_idx
    IN  [i \in 1..Len(SelectSeq(col, keep)) |->
            SolutionStep(SelectSeq(col, keep)[i][2], SelectSeq(col, keep)[i][1],
                         item.current_step.col_idx)]

\* IndexError: row[col_idx] of a row shorter than the current column.
RaisesAtColumn(m, item) ==
    /\ item.next_pick_direction = COLUMN
    /\ \E i \in 1..Len(m) : Len(m[i]) < item.current_step.col_idx + 1

NextStepsSwapped(m, item) ==
    IF item.next_pick_direction = ROW
    THEN ColumnCandidates(m, item)
    ELSE RowCandidates(m, item)

NextSteps(m, item) ==
    IF item.next_pick_direction = ROW
    THEN RowCandidates(m, item)
    ELSE ColumnCandidates(m, item)

NextPickDirection(item) ==
    IF item.next_pick_direction = ROW THEN COLUMN ELSE ROW

AlreadyUsedNever(next_step, steps) == FALSE

AlreadyUsed(next_step, steps) == \E k \in 1..Len(steps) : steps[k] = next_step

UpdatedIncompleteLengthNoReset(upload_sequence, incomplete_length, value) ==
    IF incomplete_length = 0
    THEN 0
    ELSE IF upload_sequence.cells[Len(upload_sequence.cells) - incomplete_length + 1] = value
         THEN incomplete_length - 1
         ELSE incomplete_length

UpdatedIncompleteLengthPastLength(upload_sequence, incomplete_length, value) ==
    IF incomplete_length = 0
    THEN 0
    ELSE IF upload_sequence.cells[Len(upload_sequence.cells) - incomplete_length + 1] = value
         THEN incomplete_length - 1
         ELSE Len(upload_sequence.cells) + 1

UpdatedIncompleteLength(upload_sequence, incomplete_length, value) ==
    IF incomplete_length = 0
    THEN 0
    ELSE IF upload_sequence.cells[Len(upload_sequence.cells) - incomplete_length + 1] = value
         THEN incomplete_length - 1
         ELSE Len(upload_sequence.cells)

NextSearchPoint(seqs, item, next_step) ==
    SearchStackItem(
        Append(item.steps, next_step),
        next_step,
        [i \in 1..Len(seqs) |->
            UpdatedIncompleteLength(seqs[i], item.incomplete_sequence_length[i],
                                    next_step.value)],
        NextPickDirection(item))

Children(m, seqs, item) ==
    LET next_steps == NextSteps(m, item)
        unused(s) == ~AlreadyUsed(s, item.steps)
        kept == SelectSeq(next_steps, unused)
    IN  [i \in 1..Len(kept) |-> NextSearchPoint(seqs, item, kept[i])]

(***************************************************************************)
(* _solve_internal: the final sort, sorted(solutions, key=len), stable.    *)
(***************************************************************************)
RECURSIVE InsertByLength(_, _)
InsertByLength(sorted, sol) ==
    IF sorted = <<>> THEN <<sol>>
    ELSE IF Len(Head(sorted)) <= Len(sol)
         THEN <<Head(sorted)>> \o InsertByLength(Tail(sorted), sol)
         ELSE <<sol>> \o sorted

Unsorted(sols) == sols

RECURSIVE SortedByLength(_)
SortedByLength(sols) ==
    IF sols = <<>> THEN <<>>
    ELSE InsertByLength(SortedByLength(SubSeq(sols, 1, Len(sols) - 1)), sols[Len(sols)])

(***************************************************************************)
(* solve: the relaxation.                                                  *)
(***************************************************************************)
UniquePriorities(seqs) == SortedList({seqs[i].priority : i \in 1..Len(seqs)})

DiscardedPriorityUnsorted(seqs) == seqs[1].priority

DiscardedPriority(seqs) == UniquePriorities(seqs)[1]

CanRelaxLastTier(seqs) == Len(UniquePriorities(seqs)) >= 1

CanRelax(seqs) == Len(UniquePriorities(seqs)) > 1

GameSpecification(matrix, seqs, bsize) ==
    [code_matrix |-> matrix, upload_sequences |-> seqs, buffer_size |-> bsize]

\* dataclasses.replace(spec, upload_sequences=...): a new GameSpecification.
replaceShrinkingBuffer(spec, seqs) ==
    [spec EXCEPT !.upload_sequences = seqs, !.buffer_size = spec.buffer_size - 1]

replace(spec, seqs) == [spec EXCEPT !.upload_sequences = seqs]

HigherPrioritySequencesTopOnly(seqs) ==
    LET top(sequence) ==
            sequence.priority >= UniquePriorities(seqs)[Len(UniquePriorities(seqs))]
    IN  SelectSeq(seqs, top)

HigherPrioritySequences(seqs) ==
    LET higher(sequence) == sequence.priority > DiscardedPriority(seqs)
    IN  SelectSeq(seqs, higher)

(***************************************************************************)
(* Initial states: a Specification and a strategy, solve not yet entered.  *)
(***************************************************************************)
NotEntered ==
    /\ upload_sequences = caller_sequences
    /\ strategy \in {FIND_FIRST_SOLUTION, FIND_ALL_SOLUTIONS}
    /\ search_stack = <<>>
    /\ solutions = <<>>
    /\ stopped = FALSE
    /\ result = <<>>
    /\ printed = <<>>
    /\ attempts = 0
    /\ pc = "solve"

Init ==
    /\ code_matrix \in UNION {CodeMatrix(n) : n \in 1..MaxMatrixSize}
    /\ caller_sequences \in UploadSequenceLists(MaxSeqs, MaxSeqLen, MaxPriority)
    /\ buffer_size \in 0..MaxBuffer
    /\ NotEntered

\* Specifications with more priority tiers, over the square matrices of the largest size.
TotalCells(seqs) == SumSeq([i \in 1..Len(seqs) |-> Len(seqs[i].cells)])

TierInit ==
    /\ code_matrix \in CodeMatrix(MaxMatrixSize)
    /\ caller_sequences \in
          {seqs \in [1..TierSeqs -> UploadSequence(MaxSeqLen, TierPriorities)] :
              TotalCells(seqs) <= TierCells}
    /\ buffer_size \in 1..TierBuffer
    /\ NotEntered

\* Whatever the dataclasses accept: rows of any length, no rows, no upload
\* sequences, upload sequences without cells, a buffer_size below 1.
RawCellLists(max_len) == UNION {[1..n -> CellValues] : n \in 0..max_len}

RawInit ==
    /\ code_matrix \in UNION {[1..n -> RawCellLists(RawSize)] : n \in 0..RawSize}
    /\ caller_sequences \in
          UNION {[1..n -> [cells : RawCellLists(MaxSeqLen), priority : 1..MaxPriority]] :
                    n \in 0..MaxSeqs}
    /\ buffer_size \in (-1)..RawBuffer
    /\ NotEntered

\* The matrix of test_solve_one_unique_cell_value: larger, few distinct values.
WideInit ==
    /\ code_matrix \in [1..WideSize -> [1..WideSize -> 1..WideValues]]
    /\ caller_sequences \in UploadSequenceLists(MaxSeqs, WideSeqLen, MaxPriority)
    /\ buffer_size \in 0..WideBuffer
    /\ NotEntered

(***************************************************************************)
(* Actions.                                                                *)
(***************************************************************************)
\* solve calls _solve_internal, which seeds the stack from row 0.
SolveInternalBegin ==
    /\ pc = "solve"
    /\ attempts' = attempts + 1
    /\ IF RaisesAtSeed(code_matrix, upload_sequences)
       THEN /\ pc' = "raised"
            /\ UNCHANGED <<solutions, search_stack, stopped>>
       ELSE /\ solutions' = <<>>
            /\ search_stack' = SeedStack(code_matrix, upload_sequences)
            /\ stopped' = FALSE
            /\ pc' = "loop"
    /\ UNCHANGED <<code_matrix, caller_sequences, upload_sequences, buffer_size,
                   strategy, result, printed>>

Top == search_stack[Len(search_stack)]
Popped == SubSeq(search_stack, 1, Len(search_stack) - 1)

\* The popped search point completes all upload sequences.
AcceptSolution ==
    /\ pc = "loop" /\ ~stopped /\ search_stack # <<>>
    /\ IsSolution(Top)
    /\ solutions' = Append(solutions, Top.steps)
    /\ search_stack' = Popped
    /\ stopped' = StopsSearch(strategy)
    /\ UNCHANGED <<code_matrix, caller_sequences, upload_sequences, buffer_size,
                   strategy, result, printed, attempts, pc>>

\* The remaining buffer cannot complete the sequences: the path is abandoned.
AbandonPath ==
    /\ pc = "loop" /\ ~stopped /\ search_stack # <<>>
    /\ ~IsSolution(Top)
    /\ IsHopeless(Top, buffer_size)
    /\ search_stack' = Popped
    /\ UNCHANGED <<code_matrix, caller_sequences, upload_sequences, buffer_size,
                   strategy, solutions, stopped, result, printed, attempts, pc>>

\* The unused cells of the row or column are pushed.
ExpandPath ==
    /\ pc = "loop" /\ ~stopped /\ search_stack # <<>>
    /\ ~IsSolution(Top)
    /\ ~IsHopeless(Top, buffer_size)
    /\ IF RaisesAtColumn(code_matrix, Top)
       THEN /\ pc' = "raised"
            /\ search_stack' = Popped
       ELSE /\ pc' = pc
            /\ search_stack' = Popped \o Children(code_matrix, upload_sequences, Top)
    /\ UNCHANGED <<code_matrix, caller_sequences, upload_sequences, buffer_size,
                   strategy, solutions, stopped, result, printed, attempts>>

\* The loop is over: the solutions are sorted and returned to solve.
SolveInternalReturn ==
    /\ pc = "loop"
    /\ stopped \/ search_stack = <<>>
    /\ result' = SortedByLength(solutions)
    /\ pc' = "check"
    /\ UNCHANGED <<code_matrix, caller_sequences, upload_sequences, buffer_size,
                   strategy, search_stack, solutions, stopped, printed, attempts>>

\* No solution and more than one priority: warn, drop the lowest tier, recurse.
Relax ==
    /\ pc = "check"
    /\ result = <<>>
    /\ CanRelax(upload_sequences)
    /\ printed' = Append(printed, DiscardedPriority(upload_sequences))
    /\ LET spec == GameSpecification(code_matrix, upload_sequences, buffer_size)
           updated_spec == replace(spec, HigherPrioritySequences(upload_sequences))
       IN  /\ code_matrix' = updated_spec.code_matrix
           /\ upload_sequences' = updated_spec.upload_sequences
           /\ buffer_size' = updated_spec.buffer_size
    /\ pc' = "solve"
    /\ UNCHANGED <<caller_sequences, strategy, search_stack, solutions, stopped,
                   result, attempts>>

\* solve returns its solutions.
Return ==
    /\ pc = "check"
    /\ result # <<>> \/ ~CanRelax(upload_sequences)
    /\ pc' = "done"
    /\ UNCHANGED <<code_matrix, caller_sequences, upload_sequences, buffer_size,
                   strategy, search_stack, solutions, stopped, result, printed,
                   attempts>>

Next ==
    \/ SolveInternalBegin
    \/ AcceptSolution
    \/ AbandonPath
    \/ ExpandPath
    \/ SolveInternalReturn
    \/ Relax
    \/ Return

Spec == Init /\ [][Next]_vars

TierSpec == TierInit /\ [][Next]_vars

RawSpec == RawInit /\ [][Next]_vars

WideSpec == WideInit /\ [][Next]_vars

\* solve is one sequential computation: while a step is possible, one is taken.
FairTierSpec == TierSpec /\ WF_vars(Next)

(***************************************************************************)
(* Vocabulary of the properties.                                           *)
(***************************************************************************)
StepValues(sol) == [k \in 1..Len(sol) |-> sol[k].value]

ContainsRun(values, run) ==
    \E i \in 0..(Len(values) - Len(run)) : SubSeq(values, i + 1, i + Len(run)) = run

FitsSequences(sol, seqs) ==
    \A i \in 1..Len(seqs) : ContainsRun(StepValues(sol), seqs[i].cells)

Returned == pc = "done"

Relaxed == printed # <<>>

\* Game rules for a path of cells <<row, col>>: the first cell is in row 0, odd
\* indices keep the column, even indices keep the row, no cell is used twice.
LegalPath(path) ==
    /\ path[1][1] = 0
    /\ \A k \in 2..Len(path) :
          IF k % 2 = 0 THEN path[k][2] = path[k - 1][2] ELSE path[k][1] = path[k - 1][1]
    /\ \A j, k \in 1..Len(path) : j # k => path[j] # path[k]

Indices == 0..(size(code_matrix) - 1)

RECURSIVE LegalPathsOfLength(_)
LegalPathsOfLength(n) ==
    IF n = 1 THEN {<<c>> : c \in {0} \X Indices}
    ELSE {q \in {Append(p, c) : p \in LegalPathsOfLength(n - 1), c \in Indices \X Indices} :
            LegalPath(q)}

LegalPaths(bsize) == UNION {LegalPathsOfLength(n) : n \in 1..bsize}

PathValues(path) == [k \in 1..Len(path) |-> CellAt(code_matrix, path[k][1], path[k][2])]

SatisfyingPathExists ==
    \E path \in LegalPaths(buffer_size) :
        \A i \in 1..Len(upload_sequences) :
            ContainsRun(PathValues(path), upload_sequences[i].cells)

\* C1 (Coverage): the step values of every Solution solve returns contain every
\* upload sequence of the final, post-relaxation Specification as a contiguous run.
Coverage ==
    Returned => \A s \in 1..Len(result) : FitsSequences(result[s], upload_sequences)

CoverageWitness ==
    /\ Returned /\ Relaxed
    /\ \E s \in 1..Len(result) : Len(result[s]) >= 3
    /\ \E i \in 1..Len(upload_sequences) : Len(upload_sequences[i].cells) = 2

\* C2 (Alternation): in every returned Solution step 0 is in row 0, every odd
\* step keeps the column of its predecessor and every even step > 0 its row.
Alternation ==
    Returned =>
        \A s \in 1..Len(result) :
            /\ result[s][1].row_idx = 0
            /\ \A k \in 1..(Len(result[s]) - 1) :
                  IF k % 2 = 1
                  THEN result[s][k + 1].col_idx = result[s][k].col_idx
                  ELSE result[s][k + 1].row_idx = result[s][k].row_idx

AlternationWitness ==
    /\ Returned
    /\ \E s \in 1..Len(result) :
          /\ Len(result[s]) >= 3
          /\ result[s][2].row_idx # result[s][1].row_idx
          /\ result[s][3].col_idx # result[s][2].col_idx

\* C3 (Uniqueness): the steps of a returned Solution are pairwise distinct.
Uniqueness ==
    Returned =>
        \A s \in 1..Len(result) :
            \A j, k \in 1..Len(result[s]) : j # k => result[s][j] # result[s][k]

\* A returned path that fills the whole matrix: its last search point had only
\* used cells left in its row.
UniquenessWitness ==
    /\ Returned
    /\ \E s \in 1..Len(result) : Len(result[s]) = size(code_matrix) * size(code_matrix)
    /\ size(code_matrix) > 1
    /\ buffer_size > size(code_matrix) * size(code_matrix)

\* C4 (Length bound): with buffer_size >= 1 no returned Solution has more than
\* buffer_size steps.
LengthBound ==
    (Returned /\ buffer_size >= 1) =>
        \A s \in 1..Len(result) : Len(result[s]) <= buffer_size

LengthBoundWitness ==
    /\ Returned /\ Relaxed /\ buffer_size >= 2
    /\ \E s \in 1..Len(result) : Len(result[s]) = buffer_size
    /\ \E s \in 1..Len(result) : Len(result[s]) = 1

\* C5 (Exactness): whenever some legal path of at most buffer_size cells contains
\* every upload sequence of the searched Specification, _solve_internal returns at
\* least one Solution.
Exactness ==
    (pc = "check" /\ SatisfyingPathExists) => result # <<>>

PositionIn(list, x) == CHOOSE k \in 1..Len(list) : list[k] = x

\* C6 (Result ordering): under FIND_ALL_SOLUTIONS the returned Solutions are the
\* discovered ones in non-decreasing length, and Solutions of equal length are in
\* discovery order.
ResultOrdering ==
    (Returned /\ strategy = FIND_ALL_SOLUTIONS) =>
        /\ Len(result) = Len(solutions)
        /\ \A s \in 1..Len(result) : \E d \in 1..Len(solutions) : solutions[d] = result[s]
        /\ \A s, t \in 1..Len(result) :
              s < t =>
                  /\ Len(result[s]) <= Len(result[t])
                  /\ Len(result[s]) = Len(result[t]) =>
                        PositionIn(solutions, result[s]) < PositionIn(solutions, result[t])

\* The search discovered a longer Solution before a shorter one.
ResultOrderingWitness ==
    /\ Returned /\ strategy = FIND_ALL_SOLUTIONS
    /\ \E d \in 1..(Len(solutions) - 1) : Len(solutions[d]) > Len(solutions[d + 1])
    /\ result # solutions

\* C7 (stop at first): under FIND_FIRST_SOLUTION solve returns at most one
\* Solution, with or without relaxation.
FirstSolutionOnly ==
    (Returned /\ strategy = FIND_FIRST_SOLUTION) => Len(result) <= 1

\* One Solution returned after a relaxation, the search left with work on the stack.
FirstSolutionOnlyWitness ==
    /\ Returned /\ strategy = FIND_FIRST_SOLUTION /\ Relaxed
    /\ Len(result) = 1
    /\ search_stack # <<>>

(***************************************************************************)
(* Vocabulary of the relaxation properties.                                *)
(***************************************************************************)
Priorities(seqs) == {seqs[i].priority : i \in 1..Len(seqs)}

LowestPriority(seqs) == CHOOSE p \in Priorities(seqs) : \A q \in Priorities(seqs) : p <= q

AboveLowest(seqs) ==
    LET above(sequence) == sequence.priority # LowestPriority(seqs)
    IN  SelectSeq(seqs, above)

AttemptFailed == pc = "check" /\ result = <<>>

AttemptSucceeded == pc = "check" /\ result # <<>>

RelaxationStepAction ==
    /\ (AttemptFailed /\ Cardinality(Priorities(upload_sequences)) > 1) =>
          /\ pc' = "solve"
          /\ upload_sequences' = AboveLowest(upload_sequences)
    /\ (upload_sequences' # upload_sequences) =>
          (AttemptFailed /\ Cardinality(Priorities(upload_sequences)) > 1)
    /\ AttemptSucceeded =>
          /\ pc' = "done"
          /\ result' = result
          /\ attempts' = attempts
          /\ upload_sequences' = upload_sequences
    /\ Returned => UNCHANGED vars

WholeTiersLowestFirst ==
    \E floor \in Priorities(caller_sequences) :
        LET survives(sequence) == sequence.priority >= floor
        IN  upload_sequences = SelectSeq(caller_sequences, survives)

\* C8 (Relaxation step): after a failed attempt with more than one priority the
\* next attempt runs on exactly the sequences above the lowest priority present, in
\* their order and unchanged; the surviving sequences are always the caller's
\* sequences from some priority upwards; a successful attempt is returned as it is.
RelaxationStep == []WholeTiersLowestFirst /\ [][RelaxationStepAction]_vars

\* The middle sequence of three was discarded and the outer two kept in order.
RelaxationStepWitness ==
    /\ pc = "loop" /\ Relaxed
    /\ Len(caller_sequences) = 3 /\ Len(upload_sequences) = 2
    /\ upload_sequences[1] = caller_sequences[1]
    /\ upload_sequences[2] = caller_sequences[3]
    /\ upload_sequences[1] # upload_sequences[2]

\* C9 (Diagnostics): one warning per discarded priority tier, naming that
\* priority; the named priorities increase strictly; a warning precedes the attempt
\* it announces; a first attempt that finds a Solution prints nothing.
Diagnostics ==
    /\ \A j, k \in 1..Len(printed) : j < k => printed[j] < printed[k]
    /\ {printed[k] : k \in 1..Len(printed)} =
          Priorities(caller_sequences) \ Priorities(upload_sequences)
    /\ \A k \in 1..Len(printed) : \A p \in Priorities(upload_sequences) : printed[k] < p
    /\ pc = "solve" => Len(printed) = attempts
    /\ pc # "solve" => Len(printed) = attempts - 1
    /\ (attempts = 1 /\ pc \in {"check", "done"} /\ result # <<>>) => printed = <<>>

\* Priority 1, then priority 2 discarded before a Solution is returned.
DiagnosticsWitness ==
    /\ Returned /\ result # <<>>
    /\ printed = <<1, 2>>
    /\ \E i \in 1..Len(caller_sequences) : caller_sequences[i].priority = 3

RelaxationDecreases ==
    (upload_sequences' # upload_sequences) =>
        Cardinality(Priorities(upload_sequences')) < Cardinality(Priorities(upload_sequences))

RelaxationBounded ==
    /\ upload_sequences # <<>>
    /\ attempts <= Cardinality(Priorities(caller_sequences))

\* C10 (Relaxation monotonicity and termination): each relaxation leaves strictly
\* fewer distinct priorities, at least one sequence survives, solve makes at most
\* as many attempts as the caller's sequences have distinct priorities, and returns.
RelaxationTerminates ==
    /\ []RelaxationBounded
    /\ [][RelaxationDecreases]_vars
    /\ <>Returned

\* Every tier but the last was discarded and the last attempt found nothing.
RelaxationTerminatesWitness ==
    /\ Returned /\ result = <<>>
    /\ attempts = 3
    /\ Cardinality(Priorities(caller_sequences)) = 3
    /\ Cardinality(Priorities(upload_sequences)) = 1

(***************************************************************************)
(* The outcome of solve.                                                   *)
(***************************************************************************)
LastTierFailed == AttemptFailed /\ Cardinality(Priorities(upload_sequences)) = 1

NoSolutionAction ==
    LastTierFailed =>
        /\ pc' = "done"
        /\ result' = <<>>
        /\ printed' = printed
        /\ attempts' = attempts
        /\ upload_sequences' = upload_sequences

NoSolutionFinal ==
    /\ pc # "raised"
    /\ (Returned /\ result = <<>>) =>
          /\ Cardinality(Priorities(upload_sequences)) = 1
          /\ \A k \in 1..Len(printed) : printed[k] \notin Priorities(upload_sequences)
          /\ Cardinality(Priorities(caller_sequences)) = 1 =>
                (printed = <<>> /\ attempts = 1)

\* C11 (No-solution outcome): a failed attempt on the last priority tier ends solve
\* with the empty list, without another attempt, without a warning for that tier
\* and without an exception; a single-tier Specification without a Solution
\* returns the empty list and prints nothing.
NoSolutionOutcome == []NoSolutionFinal /\ [][NoSolutionAction]_vars

\* Three sequences of one priority, no Solution, nothing printed.
NoSolutionOutcomeWitness ==
    /\ Returned /\ result = <<>> /\ printed = <<>>
    /\ Len(caller_sequences) = 3
    /\ Cardinality(Priorities(caller_sequences)) = 1

\* C12 (Relaxation only when needed): once a priority tier was discarded, every
\* returned Solution misses at least one of the caller's upload sequences.
RelaxedOnlyWhenNeeded ==
    (Returned /\ Relaxed) =>
        \A s \in 1..Len(result) : ~FitsSequences(result[s], caller_sequences)

\* C13 (Steps name their cells): every step of a returned Solution lies inside the
\* matrix and carries the value of the cell at its coordinates.
StepsNameCells ==
    Returned =>
        \A s \in 1..Len(result) : \A k \in 1..Len(result[s]) :
            /\ result[s][k].row_idx \in 0..(size(code_matrix) - 1)
            /\ result[s][k].col_idx \in 0..(size(code_matrix) - 1)
            /\ result[s][k].value =
                  code_matrix[result[s][k].row_idx + 1][result[s][k].col_idx + 1]

\* A returned path of three steps over three different cells of two values.
StepsNameCellsWitness ==
    /\ Returned
    /\ \E s \in 1..Len(result) :
          /\ Len(result[s]) >= 3
          /\ result[s][1].value # result[s][2].value
          /\ result[s][2].row_idx # result[s][2].col_idx

(***************************************************************************)
(* Construction of the Specification.                                      *)
(***************************************************************************)
InvalidSpecification ==
    \/ caller_sequences = <<>>
    \/ \E i \in 1..Len(caller_sequences) : caller_sequences[i].cells = <<>>
    \/ buffer_size <= 0

NotSquare ==
    \/ Len(code_matrix) = 0
    \/ \E i \in 1..Len(code_matrix) : Len(code_matrix[i]) # Len(code_matrix)

SearchNeverRan == attempts = 0 /\ search_stack = <<>> /\ result = <<>>

\* C14 (InvalidSpecificationError): a Specification without upload sequences, with
\* an upload sequence without cells or with buffer_size <= 0 is rejected when it is
\* constructed: no search runs on it and no Solution is returned.
InvalidSpecificationRejected == InvalidSpecification => SearchNeverRan

\* C15 (ShapeError): a matrix that is not square (or has no rows) is rejected when
\* it is constructed: no search ever runs on it.
NotSquareRejected == NotSquare => SearchNeverRan

(***************************************************************************)
(* The progress rule, as stated for one value appended to a path.          *)
(***************************************************************************)
ProgressRule(cells, r, value) ==
    CASE r = 0 -> 0
      [] r # 0 /\ value = cells[Len(cells) - r + 1] -> r - 1
      [] OTHER -> Len(cells)

RECURSIVE Tracked(_, _)
Tracked(cells, values) ==
    IF values = <<>> THEN Len(cells)
    ELSE ProgressRule(cells, Tracked(cells, SubSeq(values, 1, Len(values) - 1)),
                      values[Len(values)])

StackItems == {search_stack[k] : k \in 1..Len(search_stack)}

\* C16 (Progress rule): the remaining vector of every search point on the stack is
\* the progress rule applied, from remaining = len, to the values of its steps in
\* order: a seed is one application, a child one more application than its parent.
ProgressRuleFollowed ==
    \A item \in StackItems :
        \A i \in 1..Len(upload_sequences) :
            item.incomplete_sequence_length[i] =
                Tracked(upload_sequences[i].cells, StepValues(item.steps))

\* A search point of three steps with one sequence complete and another one reset
\* to its full length after it had progressed.
ProgressRuleFollowedWitness ==
    \E item \in StackItems :
        /\ Len(item.steps) = 3
        /\ \E i, j \in 1..Len(upload_sequences) :
              /\ item.incomplete_sequence_length[i] = 0
              /\ Tracked(upload_sequences[i].cells, SubSeq(StepValues(item.steps), 1, 2)) = 0
              /\ Len(upload_sequences[j].cells) = 2
              /\ item.incomplete_sequence_length[j] = 2
              /\ Tracked(upload_sequences[j].cells, SubSeq(StepValues(item.steps), 1, 2)) = 1

NoRepeatedValue(cells) == \A j, k \in 1..Len(cells) : j # k => cells[j] # cells[k]

\* C17 (Reset-on-mismatch correctness): for an upload sequence without a repeated
\* value, the remaining count of a search point is 0 if and only if the values of
\* its steps contain the sequence as a contiguous run.
ResetOnMismatchCorrect ==
    \A item \in StackItems :
        \A i \in 1..Len(upload_sequences) :
            NoRepeatedValue(upload_sequences[i].cells) =>
                (item.incomplete_sequence_length[i] = 0
                    <=> ContainsRun(StepValues(item.steps), upload_sequences[i].cells))

\* C20 (Range invariant): every search point on the stack has one remaining count
\* per upload sequence of the searched Specification, each between 0 and the length
\* of its sequence.
RemainingInRange ==
    \A item \in StackItems :
        /\ Len(item.incomplete_sequence_length) = Len(upload_sequences)
        /\ \A i \in 1..Len(upload_sequences) :
              /\ 0 <= item.incomplete_sequence_length[i]
              /\ item.incomplete_sequence_length[i] <= Len(upload_sequences[i].cells)

\* After a relaxation: a search point of two steps whose counts are at both ends of
\* the range, and another search point below it on the stack.
RemainingInRangeWitness ==
    /\ Relaxed /\ Len(search_stack) >= 2
    /\ \E item \in StackItems :
          /\ Len(item.steps) >= 2
          /\ Len(item.incomplete_sequence_length) = 1
          /\ item.incomplete_sequence_length[1] = Len(upload_sequences[1].cells)
    /\ \E item \in StackItems : item.incomplete_sequence_length[1] = 0

(***************************************************************************)
(* Paths of cells and what the progress rule makes of them.                *)
(***************************************************************************)
AllComplete(path) ==
    \A i \in 1..Len(upload_sequences) :
        Tracked(upload_sequences[i].cells, PathValues(path)) = 0

FirstComplete(path) ==
    /\ AllComplete(path)
    /\ \A n \in 1..(Len(path) - 1) : ~AllComplete(SubSeq(path, 1, n))

StepsOf(path) ==
    [k \in 1..Len(path) |->
        SolutionStep(CellAt(code_matrix, path[k][1], path[k][2]), path[k][1], path[k][2])]

CellsOf(steps) == [k \in 1..Len(steps) |-> <<steps[k].row_idx, steps[k].col_idx>>]

\* C18 (Enumerate-all is exhaustive): with buffer_size >= 1 the list returned under
\* FIND_ALL_SOLUTIONS holds, once each and nothing else, the legal paths of at most
\* buffer_size cells that the progress rule completes at their last step and at no
\* proper prefix.
EnumerateAllExhaustive ==
    (pc \in {"check", "done"} /\ strategy = FIND_ALL_SOLUTIONS /\ buffer_size >= 1) =>
        /\ \A s, t \in 1..Len(result) : s # t => result[s] # result[t]
        /\ {result[s] : s \in 1..Len(result)} =
              {StepsOf(path) : path \in {q \in LegalPaths(buffer_size) : FirstComplete(q)}}

\* The uniform 3x3 matrix, one sequence of three equal values, buffer 3: twelve
\* Solutions of three steps.
EnumerateAllExhaustiveWitness ==
    /\ Returned /\ strategy = FIND_ALL_SOLUTIONS /\ buffer_size = 3
    /\ size(code_matrix) = 3
    /\ \A r, c \in 1..3 : code_matrix[r][c] = 1
    /\ caller_sequences = <<[cells |-> <<1, 1, 1>>, priority |-> 1]>>
    /\ Len(result) = 12
    /\ \A s \in 1..Len(result) : Len(result[s]) = 3

(***************************************************************************)
(* Pruning.                                                                *)
(***************************************************************************)
Popping == pc = "loop" /\ ~stopped /\ search_stack # <<>>

Incomplete(item) == \E i \in 1..Len(upload_sequences) : item.incomplete_sequence_length[i] # 0

OutOfBuffer(item) ==
    \E i \in 1..Len(upload_sequences) :
        buffer_size - Len(item.steps) < item.incomplete_sequence_length[i]

Completions(item) ==
    {path \in LegalPaths(buffer_size) :
        /\ Len(path) > Len(item.steps)
        /\ SubSeq(path, 1, Len(item.steps)) = CellsOf(item.steps)
        /\ AllComplete(path)}

LegalMoves(item) ==
    {c \in Indices \X Indices : LegalPath(Append(CellsOf(item.steps), c))}

PrunedHasNoCompletion ==
    (Popping /\ Incomplete(Top) /\ OutOfBuffer(Top)) => Completions(Top) = {}

PrunedExactly ==
    (Popping /\ Incomplete(Top)) =>
        Len(search_stack') =
            Len(search_stack) - 1
                + (IF OutOfBuffer(Top) THEN 0 ELSE Cardinality(LegalMoves(Top)))

\* C19 (Pruning soundness): a popped search point that is not a Solution gets no
\* children exactly when buffer_size minus its number of steps is below its largest
\* remaining count, and then no legal extension of it within buffer_size completes
\* all upload sequences.
PruningSound == []PrunedHasNoCompletion /\ [][PrunedExactly]_vars

\* A search point of two steps about to be abandoned although buffer and unused
\* cells are left.
PruningSoundWitness ==
    /\ Popping /\ Incomplete(Top) /\ OutOfBuffer(Top)
    /\ Len(Top.steps) = 2
    /\ buffer_size > Len(Top.steps)
    /\ LegalMoves(Top) # {}

(***************************************************************************)
(* Termination of one call of _solve_internal.                             *)
(***************************************************************************)
\* The while loop of _solve_internal runs as long as it has a step to take.
FairSpec == Spec /\ WF_vars(Next)

Searching == pc = "loop"

SearchEnded == pc = "check"

Cells == size(code_matrix) * size(code_matrix)

\* The search points a step of the loop has put on the stack.
Pushed == {search_stack'[k] : k \in Len(search_stack)..Len(search_stack')}

PushedGrow ==
    Popping =>
        \A item \in Pushed :
            /\ Len(item.steps) = Len(Top.steps) + 1
            /\ Len(item.steps) <= buffer_size
            /\ Len(item.steps) <= Cells

StopAtFirstAcceptance ==
    /\ (Popping /\ strategy = FIND_FIRST_SOLUTION /\ IsSolution(Top)) => stopped'
    /\ (Searching /\ stopped) => (SearchEnded' /\ solutions' = solutions)
    /\ (Searching /\ SearchEnded') => (stopped \/ search_stack = <<>>)

EndOfSearch ==
    /\ stopped => (strategy = FIND_FIRST_SOLUTION /\ Len(solutions) = 1)
    /\ (SearchEnded /\ strategy = FIND_ALL_SOLUTIONS) => search_stack = <<>>
    /\ (SearchEnded /\ strategy = FIND_FIRST_SOLUTION) =>
          (search_stack = <<>> \/ Len(solutions) = 1)
    /\ \A item \in StackItems : Len(item.steps) <= Cells

\* C21 (Search termination): every call of _solve_internal ends; a pushed search
\* point has one step more than the popped one, at most buffer_size steps and at
\* most as many as the matrix has cells; under FIND_ALL_SOLUTIONS the search ends
\* with the stack empty, under FIND_FIRST_SOLUTION at the first accepted Solution
\* or with the stack empty.
SearchTerminates ==
    /\ Searching ~> SearchEnded
    /\ []EndOfSearch
    /\ [][PushedGrow /\ StopAtFirstAcceptance]_vars

\* A popped search point that used every cell of the matrix, with buffer left and
\* a sequence incomplete: it is expanded and nothing is pushed.
SearchTerminatesWitness ==
    /\ Popping /\ strategy = FIND_ALL_SOLUTIONS
    /\ size(code_matrix) > 1
    /\ Len(Top.steps) = Cells
    /\ Incomplete(Top) /\ ~OutOfBuffer(Top)
    /\ Len(search_stack) >= 2

(***************************************************************************)
(* _solve_internal and solve as functions of their arguments.              *)
(***************************************************************************)
\* The while loop of _solve_internal from a given stack and list of solutions.
RECURSIVE SearchLoop(_, _, _, _, _, _)
SearchLoop(m, seqs, bsize, strat, stack, sols) ==
    IF stack = <<>> THEN sols
    ELSE LET current_search_point == stack[Len(stack)]
             rest == SubSeq(stack, 1, Len(stack) - 1)
         IN  IF IsSolution(current_search_point)
             THEN IF StopsSearch(strat)
                  THEN Append(sols, current_search_point.steps)
                  ELSE SearchLoop(m, seqs, bsize, strat, rest,
                                  Append(sols, current_search_point.steps))
             ELSE IF IsHopeless(current_search_point, bsize)
                  THEN SearchLoop(m, seqs, bsize, strat, rest, sols)
                  ELSE SearchLoop(m, seqs, bsize, strat,
                                  rest \o Children(m, seqs, current_search_point), sols)

\* The solutions of _solve_internal in the order the loop appended them.
Discovered(m, seqs, bsize, strat) ==
    SearchLoop(m, seqs, bsize, strat, SeedStack(m, seqs), <<>>)

\* solve: what it returns, what it prints, the upload sequences of its last
\* attempt and what that attempt appended, in order.
RECURSIVE solve(_, _, _, _)
solve(m, seqs, bsize, strat) ==
    LET discovered == Discovered(m, seqs, bsize, strat)
    IN  IF discovered = <<>> /\ CanRelax(seqs)
        THEN LET inner == solve(m, HigherPrioritySequences(seqs), bsize, strat)
             IN  [inner EXCEPT !.printed = <<DiscardedPriority(seqs)>> \o inner.printed]
        ELSE [solutions |-> SortedByLength(discovered), printed |-> <<>>,
              upload_sequences |-> seqs, discovered |-> discovered]

OtherStrategy(strat) ==
    IF strat = FIND_FIRST_SOLUTION THEN FIND_ALL_SOLUTIONS ELSE FIND_FIRST_SOLUTION

FirstOf(list) == IF list = <<>> THEN <<>> ELSE <<list[1]>>

\* C22 (Strategy consistency): for one Specification, solve under the other
\* strategy prints the same warnings, ends on the same upload sequences and returns
\* an empty list exactly when this call does; the list returned under
\* FIND_FIRST_SOLUTION is the first Solution FIND_ALL_SOLUTIONS appends, before the
\* sort, or empty.
StrategyConsistency ==
    Returned =>
        LET other == solve(code_matrix, caller_sequences, buffer_size, OtherStrategy(strategy))
        IN  /\ other.printed = printed
            /\ other.upload_sequences = upload_sequences
            /\ (other.solutions = <<>>) <=> (result = <<>>)
            /\ strategy = FIND_FIRST_SOLUTION => result = FirstOf(other.discovered)
            /\ strategy = FIND_ALL_SOLUTIONS => other.solutions = FirstOf(solutions)

\* After a relaxation FIND_FIRST_SOLUTION returns a Solution that is not the one
\* FIND_ALL_SOLUTIONS returns first: a shorter one is discovered later.
StrategyConsistencyWitness ==
    /\ Returned /\ Relaxed /\ strategy = FIND_FIRST_SOLUTION
    /\ Len(result) = 1
    /\ LET all == solve(code_matrix, caller_sequences, buffer_size, FIND_ALL_SOLUTIONS)
       IN  /\ Len(all.solutions) >= 2
           /\ all.solutions[1] # result[1]

(***************************************************************************)
(* What solve leaves alone.                                                *)
(***************************************************************************)
SpecificationKept ==
    /\ code_matrix' = code_matrix
    /\ buffer_size' = buffer_size
    /\ caller_sequences' = caller_sequences
    /\ strategy' = strategy

OnlyRelaxationChangesSequences ==
    (upload_sequences' # upload_sequences) => (AttemptFailed /\ pc' = "solve")

SequencesAreTheCallers ==
    /\ Len(upload_sequences) <= Len(caller_sequences)
    /\ \A i \in 1..Len(upload_sequences) :
          \E j \in 1..Len(caller_sequences) : caller_sequences[j] = upload_sequences[i]
    /\ printed = <<>> => upload_sequences = caller_sequences

\* C23 (Frame): no step of solve changes the code matrix, the buffer_size or the
\* caller's upload sequences, so every attempt searches the caller's matrix with
\* the caller's buffer_size; the upload sequences of an attempt are upload
\* sequences of the caller, unchanged, and only a relaxation replaces them.
Frame ==
    /\ []SequencesAreTheCallers
    /\ [][SpecificationKept /\ OnlyRelaxationChangesSequences]_vars

\* The third attempt at work on one of the caller's three upload sequences.
FrameWitness ==
    /\ pc = "loop" /\ attempts = 3
    /\ Len(caller_sequences) = 3 /\ Len(upload_sequences) = 1
    /\ \E item \in StackItems : Len(item.steps) = buffer_size

====
